---- MODULE Spec2Model ----
(***************************************************************************)
(* Model of talisman's metrics/distance/hamming module                     *)
(* (src/src/metrics/distance/hamming.js): hamming, normalizedDistance,     *)
(* normalizedSimilarity on sequences, and the bitwise variant on integers. *)
(*                                                                         *)
(* A sequence argument is a JavaScript value: a string (compared by value  *)
(* by ===) or an array (compared by identity by ===); the arguments of one *)
(* call are all strings or all arrays.  Numbers returned by                *)
(* the sequence functions are kept as exact fractions num/den, with the    *)
(* IEEE results NaN and Infinity of a division by zero kept apart.         *)
(* The bitwise variant is modelled statement by statement on               *)
(* two's-complement integers of Width bits.                                *)
(***************************************************************************)
EXTENDS Integers, Sequences, FiniteSets

VARIABLES a, b, c, fn, out, na, nb, xor, d, pc

vars == <<a, b, c, fn, out, na, nb, xor, d, pc>>

(* ---------------------------- bounds ---------------------------------- *)

\* longest sequence enumerated exhaustively
MaxLen == 3

\* bit width of the integers of the bitwise variant (32 in JavaScript)
Width == 6

Alphabet == {"a", "b"}

(* ---------------------------- values ---------------------------------- *)

Min(m, n) == IF m < n THEN m ELSE n

Max(m, n) == IF m < n THEN n ELSE m

Abs(n) == IF n < 0 THEN 0 - n ELSE n

SeqsUpTo(n) == UNION {[1..k -> Alphabet] : k \in 0..n}

Str(s) == [kind |-> "str", ref |-> 0, elems |-> s]

Arr(r, s) == [kind |-> "arr", ref |-> r, elems |-> s]

\* the values an argument can take: a string, or the array object number r
ValuesWithRefs(refs) ==
  {Str(s) : s \in SeqsUpTo(MaxLen)}
    \cup {Arr(r, s) : r \in refs, s \in SeqsUpTo(MaxLen)}

\* one array object has one content
SameObjectSameContent(p, q) ==
  (p.kind = "arr" /\ q.kind = "arr" /\ p.ref = q.ref) => p.elems = q.elems

\* a === b
StrictEq(p, q) ==
  IF p.kind = "str" /\ q.kind = "str" THEN p.elems = q.elems
  ELSE IF p.kind = "arr" /\ q.kind = "arr" THEN p.ref = q.ref
  ELSE FALSE

\* s.length
Length(p) == Len(p.elems)

\* s[i], i counted from 0; undefined outside the sequence
At(p, i) == IF i + 1 \in DOMAIN p.elems THEN p.elems[i + 1] ELSE "undefined"

(* ---------------------------- numbers --------------------------------- *)

Num(n) == [kind |-> "num", num |-> n, den |-> 1]

NaN == [kind |-> "nan", num |-> 0, den |-> 0]

Infinity(sign) == [kind |-> "inf", num |-> sign, den |-> 0]

Throw == [kind |-> "throw", num |-> 0, den |-> 0]

None == [kind |-> "none", num |-> 0, den |-> 0]

\* n / m on numbers: 0/0 is NaN, n/0 is +-Infinity
Div(n, m) ==
  IF m = 0
    THEN IF n = 0 THEN NaN ELSE Infinity(IF n < 0 THEN 0 - 1 ELSE 1)
    ELSE [kind |-> "num", num |-> n, den |-> m]

\* 1 - r
OneMinus(r) ==
  IF r.kind = "num" THEN [kind |-> "num", num |-> r.den - r.num, den |-> r.den]
  ELSE IF r.kind = "inf" THEN Infinity(0 - r.num)
  ELSE r

(* ---------------------------- hamming --------------------------------- *)

RECURSIVE scan(_, _, _, _, _)
\* for (let i = 0, l = a.length; i < l; i++) if (a[i] !== b[i]) distance++;
scan(p, q, i, l, distance) ==
  IF i < l
    THEN scan(p, q, i + 1, l,
              IF At(p, i) # At(q, i) THEN distance + 1 ELSE distance)
    ELSE distance

RECURSIVE scanEqual(_, _, _, _, _)
\* the scan with the comparison inverted: counts the positions that agree
scanEqual(p, q, i, l, distance) ==
  IF i < l
    THEN scanEqual(p, q, i + 1, l,
                   IF At(p, i) = At(q, i) THEN distance + 1 ELSE distance)
    ELSE distance

\* hamming with the scan started at index 1
hamming_skipFirst(p, q) ==
  IF StrictEq(p, q) THEN Num(0)
  ELSE IF Length(p) # Length(q) THEN Throw
  ELSE Num(scan(p, q, 1, Length(p), 0))

\* hamming that scans the common prefix instead of rejecting unequal lengths
hamming_truncate(p, q) ==
  IF StrictEq(p, q) THEN Num(0)
  ELSE Num(scan(p, q, 0, Min(Length(p), Length(q)), 0))

\* hamming that counts agreeing positions
hamming_countMatches(p, q) ==
  IF StrictEq(p, q) THEN Num(0)
  ELSE IF Length(p) # Length(q) THEN Throw
  ELSE Num(scanEqual(p, q, 0, Length(p), 0))

\* hamming that rejects only a first argument longer than the second
hamming_oneSidedCheck(p, q) ==
  IF StrictEq(p, q) THEN Num(0)
  ELSE IF Length(p) > Length(q) THEN Throw
  ELSE Num(scan(p, q, 0, Length(p), 0))

hamming(p, q) ==
  IF StrictEq(p, q) THEN Num(0)
  ELSE IF Length(p) # Length(q) THEN Throw
  ELSE Num(scan(p, q, 0, Length(p), 0))

\* normalizedDistance with the swap test reversed
normalizedDistance_wrongSwap(p, q) ==
  IF StrictEq(p, q) THEN Num(0)
  ELSE LET swap == Length(p) < Length(q)
           s == IF swap THEN q ELSE p
           t == IF swap THEN p ELSE q
       IN  Div(scan(s, t, 0, Length(s), Length(t) - Length(s)), Length(t))

\* normalizedDistance without the swap
normalizedDistance_noSwap(p, q) ==
  IF StrictEq(p, q) THEN Num(0)
  ELSE Div(scan(p, q, 0, Length(p), Length(q) - Length(p)), Length(q))

normalizedDistance(p, q) ==
  IF StrictEq(p, q) THEN Num(0)
  ELSE LET swap == Length(p) > Length(q)
           s == IF swap THEN q ELSE p
           t == IF swap THEN p ELSE q
       IN  Div(scan(s, t, 0, Length(s), Length(t) - Length(s)), Length(t))

\* normalizedSimilarity without the complement
normalizedSimilarity_noComplement(p, q) == normalizedDistance(p, q)

normalizedSimilarity(p, q) == OneMinus(normalizedDistance(p, q))

(* ---------------------------- bitwise --------------------------------- *)

Pow2(n) == 2 ^ n

MinInt == 0 - Pow2(Width - 1)

MaxInt == Pow2(Width - 1) - 1

Ints == MinInt..MaxInt

\* ToInt32: the number modulo 2^Width, read as a signed integer
ToInt32(n) ==
  LET m == n % Pow2(Width)
  IN  IF m >= Pow2(Width - 1) THEN m - Pow2(Width) ELSE m

\* bit k of the two's-complement pattern of n
Bit(n, k) == ((n % Pow2(Width)) \div Pow2(k)) % 2

RECURSIVE BitOp(_, _, _, _)
\* combines the patterns of m and n bit by bit, from bit k upwards
BitOp(op, m, n, k) ==
  IF k = Width THEN 0
  ELSE (IF op = "xor" THEN (Bit(m, k) + Bit(n, k)) % 2 ELSE Bit(m, k) * Bit(n, k))
         * Pow2(k) + BitOp(op, m, n, k + 1)

\* xor of the low Width - 1 bits only: the sign bit is dropped
BitXor_noSign(m, n) == BitOp("xor", ToInt32(m), ToInt32(n), 0) % Pow2(Width - 1)

\* m ^ n
BitXor(m, n) == ToInt32(BitOp("xor", ToInt32(m), ToInt32(n), 0))

\* m & n
BitAnd(m, n) == ToInt32(BitOp("and", ToInt32(m), ToInt32(n), 0))

\* xor >>>= 1 in place of clearing the lowest set bit
ClearLowest_shift(x) == (x % Pow2(Width)) \div 2

\* xor &= xor - 1
ClearLowest(x) == BitAnd(x, x - 1)

(* ---------------------------- inputs ---------------------------------- *)

karolin == <<"k", "a", "r", "o", "l", "i", "n">>

kathrin == <<"k", "a", "t", "h", "r", "i", "n">>

\* the argument pairs of the documented examples
Literals ==
  { <<Str(karolin), Str(kathrin)>>,
    <<Arr(1, karolin), Arr(2, kathrin)>>,
    <<Str(<<"a", "b">>), Str(<<"a", "b", "c">>)>>,
    <<Str(<<"a", "b", "c">>), Str(<<"a", "b">>)>> }

BitsIdle == na = 0 /\ nb = 0 /\ xor = 0 /\ d = 0 /\ pc = "idle"

InitSeq ==
  /\ \/ /\ a \in ValuesWithRefs({1})
        /\ b \in ValuesWithRefs({1, 2})
        /\ c \in ValuesWithRefs({1, 2, 3})
        /\ a.kind = b.kind
        /\ b.kind = c.kind
        /\ SameObjectSameContent(a, b)
        /\ SameObjectSameContent(a, c)
        /\ SameObjectSameContent(b, c)
     \/ \E l \in Literals : a = l[1] /\ b = l[2] /\ c = l[1]
  /\ fn = "none"
  /\ out = None
  /\ BitsIdle

InitBits ==
  /\ a = Str(<<>>) /\ b = Str(<<>>) /\ c = Str(<<>>)
  /\ fn = "bitwise"
  /\ out = None
  /\ na \in Ints
  /\ nb \in Ints
  /\ xor = 0
  /\ d = 0
  /\ pc = "start"

Init == InitSeq \/ InitBits

(* ---------------------------- operations ------------------------------ *)

CallHamming ==
  /\ fn = "none"
  /\ fn' = "hamming"
  /\ out' = hamming(a, b)
  /\ UNCHANGED <<a, b, c, na, nb, xor, d, pc>>

CallNormalizedDistance ==
  /\ fn = "none"
  /\ fn' = "normalizedDistance"
  /\ out' = normalizedDistance(a, b)
  /\ UNCHANGED <<a, b, c, na, nb, xor, d, pc>>

CallNormalizedSimilarity ==
  /\ fn = "none"
  /\ fn' = "normalizedSimilarity"
  /\ out' = normalizedSimilarity(a, b)
  /\ UNCHANGED <<a, b, c, na, nb, xor, d, pc>>

\* let d = 0, xor = a ^ b;
BitwiseEnter ==
  /\ pc = "start"
  /\ d' = 0
  /\ xor' = BitXor(na, nb)
  /\ pc' = "loop"
  /\ UNCHANGED <<a, b, c, fn, out, na, nb>>

\* while (xor) { d++; xor &= xor - 1; }
BitwiseLoop ==
  /\ pc = "loop"
  /\ xor # 0
  /\ d' = d + 1
  /\ xor' = ClearLowest(xor)
  /\ UNCHANGED <<a, b, c, fn, out, na, nb, pc>>

\* return d;
BitwiseReturn ==
  /\ pc = "loop"
  /\ xor = 0
  /\ out' = Num(d)
  /\ pc' = "done"
  /\ UNCHANGED <<a, b, c, fn, na, nb, xor, d>>

NextBits == BitwiseEnter \/ BitwiseLoop \/ BitwiseReturn

Next ==
  \/ CallHamming
  \/ CallNormalizedDistance
  \/ CallNormalizedSimilarity
  \/ BitwiseEnter
  \/ BitwiseLoop
  \/ BitwiseReturn

Spec == Init /\ [][Next]_vars

\* a call of bitwise runs to completion: its loop is never suspended
LiveSpec == InitBits /\ [][NextBits]_vars /\ WF_vars(NextBits)

TypeOK ==
  /\ fn \in {"none", "hamming", "normalizedDistance", "normalizedSimilarity", "bitwise"}
  /\ out.kind \in {"none", "num", "nan", "inf", "throw"}
  /\ pc \in {"idle", "start", "loop", "done"}
  /\ xor \in Ints
  /\ d \in 0..Width

(* ---------------------------- properties ------------------------------ *)

\* the positions 1..n at which the contents of p and q differ
Mismatches(p, q, n) == Cardinality({i \in 1..n : p.elems[i] # q.elems[i]})

\* the bit positions at which the patterns of m and n differ
DiffBits(m, n) == Cardinality({k \in 0..(Width - 1) : Bit(m, k) # Bit(n, k)})

\* the set bits of the pattern of n
SetBits(n) == Cardinality({k \in 0..(Width - 1) : Bit(n, k) = 1})

BothEmpty == Length(a) = 0 /\ Length(b) = 0

\* C1: on sequences of equal length hamming returns the number of indices
\* at which they differ, an integer between 0 and the length; it is 3 for
\* "karolin" and "kathrin".
C1_HammingCountsMismatches ==
  (fn = "hamming" /\ Length(a) = Length(b)) =>
    /\ out.kind = "num"
    /\ out.den = 1
    /\ out.num = Mismatches(a, b, Length(a))
    /\ out.num \in 0..Length(a)
    /\ (a.elems = karolin /\ b.elems = kathrin) => out.num = 3

C1_Witness ==
  /\ fn = "hamming"
  /\ a = Arr(1, karolin)
  /\ b = Arr(2, kathrin)
  /\ out = Num(3)

\* C2: hamming ends in the length-mismatch error exactly when the lengths
\* differ; on unequal lengths it never returns a number.
C2_ThrowsIffLengthsDiffer ==
  fn = "hamming" =>
    /\ (Length(a) # Length(b)) => out = Throw
    /\ (Length(a) = Length(b)) => out.kind = "num"

C2_Witness ==
  /\ fn = "hamming"
  /\ Length(a) = 3
  /\ Length(b) = 2
  /\ out = Throw

\* C3: for sequences not both empty normalizedDistance is the length gap
\* plus the mismatches of the common prefix, divided by the greater length;
\* it is 1/3 for "ab" and "abc".
C3_NormalizedDistanceValue ==
  (fn = "normalizedDistance" /\ ~BothEmpty) =>
    /\ out.kind = "num"
    /\ out.den > 0
    /\ out.num * Max(Length(a), Length(b))
         = (Abs(Length(a) - Length(b))
              + Mismatches(a, b, Min(Length(a), Length(b)))) * out.den
    /\ (a.elems = <<"a", "b">> /\ b.elems = <<"a", "b", "c">>)
         => out.num * 3 = out.den

C3_Witness ==
  /\ fn = "normalizedDistance"
  /\ a = Str(<<"a", "b">>)
  /\ b = Str(<<"a", "b", "c">>)
  /\ out.kind = "num"
  /\ out.num * 3 = out.den

\* C4: when both sequences are empty normalizedDistance returns 0, whether
\* they are the same value or two distinct empty sequences.
C4_EmptyPairGivesZero ==
  (fn = "normalizedDistance" /\ BothEmpty) => (out.kind = "num" /\ out.num = 0)

\* C5: bitwise returns the number of bit positions at which its operands
\* differ, a value between 0 and the bit width, also for negative operands;
\* it is 2 for 1 and 2.
C5_BitwiseIsPopcountOfXor ==
  pc = "done" =>
    /\ out = Num(DiffBits(na, nb))
    /\ out.num \in 0..Width
    /\ (na = 1 /\ nb = 2) => out = Num(2)

C5_Witness ==
  /\ pc = "done"
  /\ na = 0 - 1
  /\ nb = 0
  /\ out = Num(Width)

\* C6: normalizedSimilarity is 1 minus normalizedDistance of the same
\* arguments in the same order: the two sum to 1, it is 1 when the distance
\* is 0 and 0 when the distance is 1, and it is 2/3 for "ab" and "abc".
\* Where the distance is not a number (NaN) the similarity is NaN as well.
C6_SimilarityIsComplement ==
  fn = "normalizedSimilarity" =>
    LET nd == normalizedDistance(a, b)
    IN  /\ nd.kind = "num" =>
             /\ out.kind = "num"
             /\ out.den > 0
             /\ out.num * nd.den + nd.num * out.den = out.den * nd.den
             /\ (nd.num = 0) => out.num = out.den
             /\ (nd.num = nd.den) => out.num = 0
        /\ nd.kind # "num" => out.kind = nd.kind
        /\ (a.elems = <<"a", "b">> /\ b.elems = <<"a", "b", "c">>)
             => out.num * 3 = 2 * out.den

C6_Witness ==
  /\ fn = "normalizedSimilarity"
  /\ a = Str(<<"a", "b">>)
  /\ b = Str(<<"a", "b", "c">>)
  /\ out.kind = "num"
  /\ out.num * 3 = 2 * out.den

\* C7: on three sequences of one common length hamming satisfies the
\* triangle inequality, also when some of them are identical and the fast
\* path answers.
C7_TriangleInequality ==
  (pc = "idle" /\ Length(a) = Length(b) /\ Length(b) = Length(c)) =>
    /\ hamming(a, b).kind = "num"
    /\ hamming(b, c).kind = "num"
    /\ hamming(a, c).kind = "num"
    /\ hamming(a, c).num <= hamming(a, b).num + hamming(b, c).num

C7_Witness ==
  /\ fn = "hamming"
  /\ Length(a) = Length(b)
  /\ Length(b) = Length(c)
  /\ StrictEq(a, b)
  /\ a.kind = "arr"
  /\ out = Num(0)
  /\ hamming(a, c).num = MaxLen

\* C8: hamming is symmetric: both argument orders give the same number on
\* equal lengths and the same error on unequal lengths.
C8_HammingSymmetric ==
  fn = "hamming" => out = hamming(b, a)

C8_Witness ==
  /\ fn = "hamming"
  /\ Length(a) < Length(b)
  /\ out = Throw
  /\ hamming(b, a) = Throw

\* C9: the loop of bitwise terminates; every iteration clears exactly one
\* set bit, so the iterations counted by d are the set bits of a XOR b and
\* at most the bit width; from the minimum integer one iteration reaches 0.
C9_LoopTerminatesInPopcountSteps ==
  /\ <>(pc = "done")
  /\ [](pc \in {"loop", "done"} =>
          (d + SetBits(xor) = DiffBits(na, nb) /\ d <= Width))
  /\ [][(pc = "loop" /\ xor = MinInt) => (xor' = 0 /\ d' = d + 1)]_vars

C9_Witness ==
  /\ pc = "done"
  /\ na = MinInt
  /\ nb = 0
  /\ d = 1

\* C10: for sequences not both empty normalizedDistance gives the same
\* value in both argument orders.
C10_NormalizedDistanceSymmetric ==
  (fn = "normalizedDistance" /\ ~BothEmpty) =>
    LET r == normalizedDistance(b, a)
    IN  /\ out.kind = "num"
        /\ r.kind = "num"
        /\ out.num * r.den = r.num * out.den

C10_Witness ==
  /\ fn = "normalizedDistance"
  /\ Length(a) > Length(b)
  /\ out.kind = "num"
  /\ out.num > 0
  /\ out.num < out.den
====
